---- MODULE Spec2Model ----
(***************************************************************************)
(* Model of youtube_dl/extractor/ardaudiothek.py: the episode normalizer   *)
(* (_extract_episode), the shared playlist assembler                       *)
(* (_extract_sammlung_sendung), and the four route resolvers               *)
(* (_real_extract of the Episode, Sammlung, Sendung and Suche extractors). *)
(*                                                                         *)
(* JSON values are tagged records.  A string is a sequence of atoms; an    *)
(* atom is a run of characters without braces, or one replacement field    *)
(* ("{width}", "{}", "{height}"), or one unbalanced brace ("{").           *)
(* A mapping is a set of <<key, value>> pairs with unique keys.            *)
(***************************************************************************)
EXTENDS Integers, Sequences, FiniteSets, TLC

\* ------------------------------------------------------------------ bounds
MaxNodes == 2

\* ------------------------------------------------------------ JSON values
None == [t |-> "null"]
Str(atoms) == [t |-> "str", s |-> atoms]
JInt(n) == [t |-> "int", i |-> n]
JBool(x) == [t |-> "bool", b |-> x]
List(seq) == [t |-> "list", l |-> seq]
Dict(pairs) == [t |-> "dict", d |-> pairs]

\* A raised Python exception, as the value of an expression.
Raise(kind) == [t |-> "raise", e |-> kind, msg |-> "", expected |-> FALSE]
\* utils.ExtractorError(msg, expected=True), as every raise of this file has it.
ExtractorError(msg) == [t |-> "raise", e |-> "ExtractorError", msg |-> msg, expected |-> TRUE]
IsRaise(v) == v.t = "raise"

\* Python truthiness of a value (the operand of `not`).
Truthy(v) ==
    CASE v.t = "null" -> FALSE
      [] v.t = "str"  -> Len(v.s) > 0
      [] v.t = "int"  -> v.i # 0
      [] v.t = "bool" -> v.b
      [] v.t = "list" -> Len(v.l) > 0
      [] v.t = "dict" -> v.d # {}
      [] OTHER        -> FALSE

\* isinstance(v, expected_type); bool is a subclass of int in Python.
IsInstance(v, type) ==
    CASE type = "any" -> TRUE
      [] type = "int" -> v.t \in {"int", "bool"}
      [] OTHER        -> v.t = type

\* ----------------------------------------------------- getter expressions
\* One step of a getter lambda: x[name], x[index] or x.format(width=320).
Key(name) == [op |-> "key", key |-> name, idx |-> 0]
Idx(i) == [op |-> "idx", key |-> "", idx |-> i]
Fmt == [op |-> "format", key |-> "", idx |-> 0]

\* x[name] with a string key.
GetItem(v, name) ==
    IF v.t = "dict"
    THEN LET m == {p \in v.d : p[1] = name}
         IN IF m = {} THEN Raise("KeyError") ELSE (CHOOSE p \in m : TRUE)[2]
    ELSE Raise("TypeError")

\* x[i] with an integer index i >= 0.
GetIndex(v, i) ==
    CASE v.t = "list" -> IF i < Len(v.l) THEN v.l[i + 1] ELSE Raise("IndexError")
      [] v.t = "str"  -> IF i < Len(v.s) THEN Str(<<v.s[i + 1]>>) ELSE Raise("IndexError")
      [] v.t = "dict" -> Raise("KeyError")
      [] OTHER        -> Raise("TypeError")

\* What str.format(width=320) does with one atom.
FormatAtom(a) ==
    CASE a = "{width}" -> "320"
      [] a = "{}"      -> "IndexError"
      [] a = "{height}" -> "KeyError"
      [] a = "{"       -> "ValueError"
      [] OTHER         -> a

FormatErrors == {"IndexError", "KeyError", "ValueError"}

\* template.format(width=320): the first field that cannot be replaced raises.
StrFormat(v) ==
    IF v.t # "str" THEN Raise("AttributeError")
    ELSE LET out == [k \in 1..Len(v.s) |-> FormatAtom(v.s[k])]
             bad == {k \in 1..Len(v.s) : out[k] \in FormatErrors}
         IN IF bad = {} THEN Str(out)
            ELSE Raise(out[CHOOSE k \in bad : \A j \in bad : k <= j])

ApplyStep(v, step) ==
    CASE step.op = "key"    -> GetItem(v, step.key)
      [] step.op = "idx"    -> GetIndex(v, step.idx)
      [] step.op = "format" -> StrFormat(v)

\* The value of a getter lambda on x: the steps left to right, stopping at
\* the first one that raises.
RECURSIVE Getter(_, _)
Getter(x, path) ==
    IF path = <<>> \/ IsRaise(x) THEN x
    ELSE Getter(ApplyStep(x, Head(path)), Tail(path))

\* utils.try_get: the getters in order; a getter that raises one of the four
\* lookup errors or yields a value of another type is skipped; any other
\* exception propagates; None when no getter is left.
TryGetCaught == {"AttributeError", "KeyError", "TypeError", "IndexError"}

RECURSIVE try_get(_, _, _)
try_get(src, getters, expected_type) ==
    IF getters = <<>> THEN None
    ELSE LET v == Getter(src, Head(getters))
         IN IF IsRaise(v)
            THEN IF v.e \in TryGetCaught
                 THEN try_get(src, Tail(getters), expected_type)
                 ELSE v
            ELSE IF IsInstance(v, expected_type)
                 THEN v
                 ELSE try_get(src, Tail(getters), expected_type)

\* ------------------------------------------------------------ date parsing
\* Publish timestamps the date formats of utils.unified_strdate accept, with
\* the YYYYMMDD date each one parses to.
IsoDates == {<<"2022-05-21T07:40:00.000Z">>, <<"2021-12-31T23:00:00.000Z">>}
DateOf(atoms) == IF atoms = <<"2022-05-21T07:40:00.000Z">> THEN <<"20220521">> ELSE <<"20211231">>

\* utils.unified_strdate: None for None and for a string no format matches.
unified_strdate(date_str) ==
    IF date_str = None THEN None
    ELSE IF date_str.s \in IsoDates THEN Str(DateOf(date_str.s))
    ELSE None

\* ------------------------------------------------------ _extract_episode
MsgNoUrl == "Could not find a URL to download"
MsgNoPlaylist == "Could not find any playlist data"
MsgNoEpisode == "Could not find any episode data"
MsgNoSearch == "Could not find any search results"

\* Variant of EpisodeUrl with the two getters in the other order.
EpisodeUrl_DownloadFirst(ep_data) ==
    try_get(ep_data, << <<Key("audios"), Idx(0), Key("downloadUrl")>>,
                        <<Key("audios"), Idx(0), Key("url")>> >>, "str")

\* The url lookup of _extract_episode: streaming url, then download url, of
\* the first audio variant.
EpisodeUrl(ep_data) ==
    try_get(ep_data, << <<Key("audios"), Idx(0), Key("url")>>,
                        <<Key("audios"), Idx(0), Key("downloadUrl")>> >>, "str")

EpisodeThumbnail(ep_data) ==
    try_get(ep_data, << <<Key("image"), Key("url1X1"), Fmt>> >>, "str")

\* The record _extract_episode returns once url and thumbnail are known.
EpisodeRecord(ep_data, url, thumbnail) ==
    [id          |-> try_get(ep_data, << <<Key("id")>> >>, "str"),
     title       |-> try_get(ep_data, << <<Key("title")>> >>, "str"),
     description |-> try_get(ep_data, << <<Key("description")>> >>, "str"),
     url         |-> url,
     duration    |-> try_get(ep_data, << <<Key("duration")>> >>, "int"),
     upload_date |-> unified_strdate(try_get(ep_data, << <<Key("publishDate")>> >>, "str")),
     is_live     |-> JBool(FALSE),
     thumbnail   |-> thumbnail,
     channel     |-> try_get(ep_data, << <<Key("programSet"), Key("publicationService"),
                                          Key("organizationName")>> >>, "str"),
     series      |-> try_get(ep_data, << <<Key("programSet"), Key("title")>> >>, "str"),
     categories  |-> try_get(ep_data, << <<Key("programSet"), Key("publicationService"),
                                          Key("genre")>> >>, "str")]

\* Variant of extract_episode without the test of res['url'].
extract_episode_NoUrlCheck(ep_data) ==
    LET url == EpisodeUrl(ep_data)
        thumbnail == EpisodeThumbnail(ep_data)
    IN IF IsRaise(thumbnail) THEN thumbnail
       ELSE [t |-> "ok", res |-> EpisodeRecord(ep_data, url, thumbnail)]

\* _extract_episode(ep_data): [t |-> "ok", res |-> record], or the exception
\* it raises.  The url test comes before the thumbnail is formatted.
extract_episode(ep_data) ==
    LET url == EpisodeUrl(ep_data)
        thumbnail == EpisodeThumbnail(ep_data)
    IN IF ~Truthy(url) THEN ExtractorError(MsgNoUrl)
       ELSE IF IsRaise(thumbnail) THEN thumbnail
       ELSE [t |-> "ok", res |-> EpisodeRecord(ep_data, url, thumbnail)]

\* ------------------------------------------------------ playlist assembly
\* The getter x['data'][root]...: the path below the response root.
DataPath(root, rest) == <<Key("data"), Key(root)>> \o rest

\* Variant of SammlungSendungHead that tests `entries is None` instead of
\* `not entries`.
SammlungSendungHead_AcceptsEmpty(data, playlist_type) ==
    LET nodes == try_get(data, <<DataPath(playlist_type, <<Key("items"), Key("nodes")>>)>>, "list")
    IN IF nodes = None THEN ExtractorError(MsgNoPlaylist)
       ELSE [t |-> "ok", nodes |-> nodes.l,
             res |-> [id |-> try_get(data, <<DataPath(playlist_type, <<Key("id")>>)>>, "str"),
                      title |-> try_get(data, <<DataPath(playlist_type, <<Key("title")>>)>>, "str"),
                      type |-> "playlist",
                      entries |-> <<>>]]

\* _extract_sammlung_sendung, lines 92-101: the node list and the empty
\* playlist record, or the exception raised for a missing node list.
SammlungSendungHead(data, playlist_type) ==
    LET nodes == try_get(data, <<DataPath(playlist_type, <<Key("items"), Key("nodes")>>)>>, "list")
    IN IF ~Truthy(nodes) THEN ExtractorError(MsgNoPlaylist)
       ELSE [t |-> "ok", nodes |-> nodes.l,
             res |-> [id |-> try_get(data, <<DataPath(playlist_type, <<Key("id")>>)>>, "str"),
                      title |-> try_get(data, <<DataPath(playlist_type, <<Key("title")>>)>>, "str"),
                      type |-> "playlist",
                      entries |-> <<>>]]

\* Variant of SucheHead that tests `entries is None` instead of `not entries`.
SucheHead_AcceptsEmpty(data, search_str) ==
    LET nodes == try_get(data, <<DataPath("search", <<Key("items"), Key("nodes")>>)>>, "list")
    IN IF nodes = None THEN ExtractorError(MsgNoSearch)
       ELSE [t |-> "ok", nodes |-> nodes.l,
             res |-> [id |-> None,
                      title |-> search_str,
                      type |-> "playlist",
                      entries |-> <<>>]]

\* ARDAudiothekSucheIE._real_extract, lines 210-219.
SucheHead(data, search_str) ==
    LET nodes == try_get(data, <<DataPath("search", <<Key("items"), Key("nodes")>>)>>, "list")
    IN IF ~Truthy(nodes) THEN ExtractorError(MsgNoSearch)
       ELSE [t |-> "ok", nodes |-> nodes.l,
             res |-> [id |-> None,
                      title |-> search_str,
                      type |-> "playlist",
                      entries |-> <<>>]]

\* One iteration of the loop of _extract_sammlung_sendung, lines 102-106:
\* the playlist record and the warnings after it, and the exception that
\* leaves the loop (None when there is none).  entry["id"] is evaluated in
\* the except clause, outside any try.
SammlungSendungStep(playlist, warned, entry) ==
    LET r == extract_episode(entry)
        id == GetItem(entry, "id")
    IN IF r.t = "ok"
       THEN [res |-> [playlist EXCEPT !.entries = Append(@, r.res)], warnings |-> warned, exc |-> None]
       ELSE IF r.e = "ExtractorError"
       THEN IF IsRaise(id)
            THEN [res |-> playlist, warnings |-> warned, exc |-> id]
            ELSE [res |-> playlist, warnings |-> Append(warned, id), exc |-> None]
       ELSE [res |-> playlist, warnings |-> warned, exc |-> r]

\* Variant of SucheStep that drops a node without reporting a warning.
SucheStep_Silent(playlist, warned, entry) ==
    LET r == extract_episode(entry)
    IN IF r.t = "ok"
       THEN [res |-> [playlist EXCEPT !.entries = Append(@, r.res)], warnings |-> warned, exc |-> None]
       ELSE IF r.e = "ExtractorError"
       THEN [res |-> playlist, warnings |-> warned, exc |-> None]
       ELSE [res |-> playlist, warnings |-> warned, exc |-> r]

\* One iteration of the loop of ARDAudiothekSucheIE._real_extract, lines 220-224.
SucheStep(playlist, warned, entry) ==
    LET r == extract_episode(entry)
        id == GetItem(entry, "id")
    IN IF r.t = "ok"
       THEN [res |-> [playlist EXCEPT !.entries = Append(@, r.res)], warnings |-> warned, exc |-> None]
       ELSE IF r.e = "ExtractorError"
       THEN IF IsRaise(id)
            THEN [res |-> playlist, warnings |-> warned, exc |-> id]
            ELSE [res |-> playlist, warnings |-> Append(warned, id), exc |-> None]
       ELSE [res |-> playlist, warnings |-> warned, exc |-> r]

\* ------------------------------------------------------------------ inputs
Absent == [t |-> "absent"]
Field(name, opt) == IF opt = Absent THEN {} ELSE {<<name, opt>>}

UrlS == Str(<<"https://stream/", "x.mp3">>)
UrlD == Str(<<"https://download/", "x.mp3">>)
Variant(url, downloadUrl) == Dict(Field("url", url) \cup Field("downloadUrl", downloadUrl))

\* Values of the audios field, for the episode route.
EpisodeAudios ==
    {Absent, None, List(<<>>),
     List(<<Variant(Absent, Absent)>>),
     List(<<Variant(UrlS, Absent)>>),
     List(<<Variant(UrlS, UrlD)>>),
     List(<<Variant(Absent, UrlD)>>),
     List(<<Variant(None, UrlD)>>),
     List(<<Variant(JInt(5), UrlD)>>),
     List(<<Variant(Str(<<>>), UrlD)>>),
     List(<<Variant(Str(<<>>), Absent)>>),
     List(<<Variant(Absent, Str(<<>>))>>),
     List(<<Variant(Absent, Absent), Variant(UrlS, UrlD)>>)}

TemplateOk == Dict({<<"url1X1", Str(<<"https://img/", "{width}", "/x.jpg">>)>>})
TemplateOpen == Dict({<<"url1X1", Str(<<"https://img/", "{", "/x.jpg">>)>>})
TemplatePositional == Dict({<<"url1X1", Str(<<"https://img/", "{}", "/x.jpg">>)>>})
TemplateOtherName == Dict({<<"url1X1", Str(<<"https://img/", "{height}", "/x.jpg">>)>>})
EpisodeImages ==
    {Absent, None, Dict({}), Dict({<<"url1X1", JInt(1)>>}),
     TemplateOk, TemplateOpen, TemplatePositional, TemplateOtherName}

PublishDates == {Absent, Str(<<"2022-05-21T07:40:00.000Z">>), Str(<<"soon">>), JInt(1653118800)}
Durations == {Absent, JInt(600), Str(<<"600">>)}
Service == Dict({<<"organizationName", Str(<<"RBB">>)>>, <<"genre", Str(<<"Info">>)>>})
ProgramSets ==
    {Absent, None, Dict({<<"title", Str(<<"Die Profis">>)>>}),
     Dict({<<"title", Str(<<"Die Profis">>)>>, <<"publicationService", Service>>})}

Node(id, audios, image, publishDate, duration, programSet) ==
    Dict(Field("id", id) \cup Field("title", Str(<<"T">>)) \cup Field("audios", audios)
         \cup Field("image", image) \cup Field("publishDate", publishDate)
         \cup Field("duration", duration) \cup Field("programSet", programSet))

\* What data.item can be in the answer to the item query.
EpisodeItems ==
    {Absent, None, Dict({}), Str(<<"x">>), List(<<>>)}
    \cup {Node(id, a, im, pd, du, ps) :
            id \in {Absent, Str(<<"10525879">>)}, a \in EpisodeAudios, im \in EpisodeImages,
            pd \in PublishDates, du \in Durations, ps \in ProgramSets}

\* The nodes of a playlist answer: mappings with and without an id, a usable
\* url and a well-formed image template, and two values that are no mapping.
PlaylistNodes ==
    {None, Str(<<"x">>)}
    \cup {Node(id, a, im, Absent, Absent, Absent) :
            id \in {Absent, Str(<<"a">>), Str(<<"b">>)},
            a \in {Absent, List(<<Variant(UrlS, UrlD)>>), List(<<Variant(Str(<<>>), UrlD)>>)},
            im \in {Absent, TemplateOpen}}

RECURSIVE SeqsUpTo(_, _)
SeqsUpTo(S, n) ==
    IF n = 0 THEN {<<>>}
    ELSE LET shorter == SeqsUpTo(S, n - 1)
         IN shorter \cup {Append(q, x) : q \in shorter, x \in S}

\* What items.nodes can be in the answer to a playlist or search query.
NodeLists ==
    {Absent, None, Str(<<"x">>), Dict({})} \cup {List(q) : q \in SeqsUpTo(PlaylistNodes, MaxNodes)}

\* The answers of the upstream API to the item query.
ItemResponses ==
    {None, Dict({}), Dict({<<"data", None>>})}
    \cup {Dict({<<"data", Dict(Field("item", it))>>}) : it \in EpisodeItems}

\* What data.<root> can be in the answer to a playlist or search query.
Collections ==
    {Absent, None, Dict({})}
    \cup {Dict(meta \cup {<<"items", Dict(Field("nodes", nl))>>}) :
            nl \in NodeLists,
            meta \in {{}, {<<"id", Str(<<"12187357">>)>>, <<"title", Str(<<"Korridore">>)>>}}}

\* The answers of the upstream API to the query of a route.
Responses(root) ==
    IF root = "item" THEN ItemResponses
    ELSE {None, Dict({<<"data", None>>})} \cup {Dict({<<"data", Dict(Field(root, c))>>}) : c \in Collections}

Routes == {"item", "programSet", "editorialCollection", "search"}
PlaylistTypes == {"programSet", "editorialCollection"}
\* What _match_id captures from the URL of a route.
MatchIds(root) == IF root = "search" THEN {Str(<<"termite">>)} ELSE {Str(<<"10525879">>)}

\* ------------------------------------------------------------------- state
VARIABLES
    pc,           \* position of the resolution: idle, download, extract, loop, done
    route,        \* root field of the query of the route resolver that runs
    match_id,     \* the id or search term taken from the URL
    calls,        \* calls of _download_json made so far
    result_data,  \* what _download_json returned
    entries,      \* the node list read from the answer
    idx,          \* position of the loop in entries
    res,          \* the playlist record under construction
    warnings,     \* ids passed to report_warning, in order
    normalized,   \* calls of _extract_episode made so far
    outcome       \* what the resolver returned or raised

vars == <<pc, route, match_id, calls, result_data, entries, idx, res, warnings, normalized, outcome>>

\* result_data before _download_json has returned.
NoData == [t |-> "unset"]
NoOutcome == [kind |-> "none", value |-> None]
Returned(v) == [kind |-> "returned", value |-> v]
Raised(e) == [kind |-> "raised", value |-> e]
DownloadFailed(expected) ==
    [t |-> "raise", e |-> "ExtractorError", msg |-> "Unable to download JSON metadata",
     expected |-> expected]

Init ==
    /\ pc = "idle"
    /\ route = "none"
    /\ match_id = None
    /\ calls = 0
    /\ result_data = NoData
    /\ entries = <<>>
    /\ idx = 0
    /\ res = None
    /\ warnings = <<>>
    /\ normalized = 0
    /\ outcome = NoOutcome

\* _real_extract up to the call of _download_json: the URL is matched.
RealExtract(root, id) ==
    /\ pc = "idle"
    /\ pc' = "download"
    /\ route' = root
    /\ match_id' = id
    /\ UNCHANGED <<calls, result_data, entries, idx, res, warnings, normalized, outcome>>

\* _download_json returns the parsed answer.
DownloadJsonReturn(data) ==
    /\ pc = "download"
    /\ calls' = calls + 1
    /\ result_data' = data
    /\ pc' = "extract"
    /\ UNCHANGED <<route, match_id, entries, idx, res, warnings, normalized, outcome>>

\* Variant of DownloadJsonFail that calls _download_json a second time after
\* the first failure.
DownloadJsonFail_Retry(expected) ==
    /\ pc = "download"
    /\ calls' = calls + 1
    /\ IF calls < 1
       THEN UNCHANGED <<pc, outcome>>
       ELSE /\ outcome' = Raised(DownloadFailed(expected))
            /\ pc' = "done"
    /\ UNCHANGED <<route, match_id, result_data, entries, idx, res, warnings, normalized>>

\* _download_json raises (fatal=True is its default); nothing catches it.
DownloadJsonFail(expected) ==
    /\ pc = "download"
    /\ calls' = calls + 1
    /\ outcome' = Raised(DownloadFailed(expected))
    /\ pc' = "done"
    /\ UNCHANGED <<route, match_id, result_data, entries, idx, res, warnings, normalized>>

\* Variant of EpisodeExtract without the test of ep_data.
EpisodeExtract_NoItemCheck ==
    /\ pc = "extract"
    /\ route = "item"
    /\ LET ep_data == try_get(result_data, <<DataPath("item", <<>>)>>, "dict")
           r == extract_episode(ep_data)
       IN /\ outcome' = IF r.t = "ok" THEN Returned(r.res) ELSE Raised(r)
          /\ normalized' = normalized + 1
    /\ pc' = "done"
    /\ UNCHANGED <<route, match_id, calls, result_data, entries, idx, res, warnings>>

\* ARDAudiothekEpisodeIE._real_extract after the download, lines 137-143.
EpisodeExtract ==
    /\ pc = "extract"
    /\ route = "item"
    /\ LET ep_data == try_get(result_data, <<DataPath("item", <<>>)>>, "dict")
           r == extract_episode(ep_data)
       IN IF ~Truthy(ep_data)
          THEN /\ outcome' = Raised(ExtractorError(MsgNoEpisode))
               /\ normalized' = normalized
          ELSE /\ outcome' = IF r.t = "ok" THEN Returned(r.res) ELSE Raised(r)
               /\ normalized' = normalized + 1
    /\ pc' = "done"
    /\ UNCHANGED <<route, match_id, calls, result_data, entries, idx, res, warnings>>

\* The part of a playlist resolver between the download and the loop.
EnterLoop(head) ==
    IF IsRaise(head)
    THEN /\ outcome' = Raised(head)
         /\ pc' = "done"
         /\ UNCHANGED <<entries, idx, res>>
    ELSE /\ entries' = head.nodes
         /\ res' = head.res
         /\ idx' = 1
         /\ pc' = "loop"
         /\ UNCHANGED outcome

\* _extract_sammlung_sendung after the download, up to the loop.
SammlungSendungExtract ==
    /\ pc = "extract"
    /\ route \in PlaylistTypes
    /\ EnterLoop(SammlungSendungHead(result_data, route))
    /\ UNCHANGED <<route, match_id, calls, result_data, warnings, normalized>>

\* ARDAudiothekSucheIE._real_extract after the download, up to the loop.
SucheExtract ==
    /\ pc = "extract"
    /\ route = "search"
    /\ EnterLoop(SucheHead(result_data, match_id))
    /\ UNCHANGED <<route, match_id, calls, result_data, warnings, normalized>>

\* The effect of one loop iteration on the state.
LoopBody(st) ==
    /\ res' = st.res
    /\ warnings' = st.warnings
    /\ normalized' = normalized + 1
    /\ IF IsRaise(st.exc)
       THEN /\ outcome' = Raised(st.exc)
            /\ pc' = "done"
            /\ idx' = idx
       ELSE /\ idx' = idx + 1
            /\ UNCHANGED <<pc, outcome>>

SammlungSendungLoop ==
    /\ pc = "loop"
    /\ route \in PlaylistTypes
    /\ idx <= Len(entries)
    /\ LoopBody(SammlungSendungStep(res, warnings, entries[idx]))
    /\ UNCHANGED <<route, match_id, calls, result_data, entries>>

SucheLoop ==
    /\ pc = "loop"
    /\ route = "search"
    /\ idx <= Len(entries)
    /\ LoopBody(SucheStep(res, warnings, entries[idx]))
    /\ UNCHANGED <<route, match_id, calls, result_data, entries>>

\* `return res` of both playlist resolvers, lines 107 and 225.
PlaylistReturn ==
    /\ pc = "loop"
    /\ idx > Len(entries)
    /\ outcome' = Returned(res)
    /\ pc' = "done"
    /\ UNCHANGED <<route, match_id, calls, result_data, entries, idx, res, warnings, normalized>>

Next ==
    \/ \E root \in Routes : \E id \in MatchIds(root) : RealExtract(root, id)
    \/ /\ pc = "download"
       /\ \E data \in Responses(route) : DownloadJsonReturn(data)
    \/ \E expected \in BOOLEAN : DownloadJsonFail(expected)
    \/ EpisodeExtract
    \/ SammlungSendungExtract
    \/ SucheExtract
    \/ SammlungSendungLoop
    \/ SucheLoop
    \/ PlaylistReturn

Spec == Init /\ [][Next]_vars

\* ---------------------------------------------------- vocabulary of claims
\* These read the upstream answer directly, not through the resolvers.
Received == result_data # NoData
PlaylistRoute == route \in PlaylistTypes \cup {"search"}

\* A media url a download can use: a non-empty string.
UsableUrl(v) == v.t = "str" /\ Len(v.s) > 0
StreamingUrl(node) == Getter(node, <<Key("audios"), Idx(0), Key("url")>>)
DownloadUrl(node) == Getter(node, <<Key("audios"), Idx(0), Key("downloadUrl")>>)
HasUsableUrl(node) == UsableUrl(StreamingUrl(node)) \/ UsableUrl(DownloadUrl(node))
LacksUsableUrl(node) == ~HasUsableUrl(node)

\* data.item of the answer, and whether it is a non-empty mapping.
ItemValue == Getter(result_data, DataPath("item", <<>>))
ItemPresent == ItemValue.t = "dict" /\ ItemValue.d # {}

\* data.<root>.items.nodes of the answer, and its nodes when it is a list.
NodeListValue == Getter(result_data, DataPath(route, <<Key("items"), Key("nodes")>>))
UpstreamNodes == IF NodeListValue.t = "list" THEN NodeListValue.l ELSE <<>>

IsEmptyPlaylistError(o) ==
    /\ o.kind = "raised"
    /\ o.value.e = "ExtractorError"
    /\ o.value.expected
    /\ o.value.msg \in {MsgNoPlaylist, MsgNoSearch}
IsMissingMediaURL(o) == o = Raised(ExtractorError(MsgNoUrl))
IsNoEpisodeData(o) == o = Raised(ExtractorError(MsgNoEpisode))
IsDownloadFailure(o) ==
    o.kind = "raised" /\ o.value.msg = "Unable to download JSON metadata"

\* ------------------------------------------------------------------ claims

\* C1: for every playlist route and every non-empty upstream node list, the
\* resolution returns a playlist whose entries are the normalized records of
\* the nodes that have a url, in upstream order, and one warning is emitted
\* per dropped node, carrying that node's id; no dropped node aborts the
\* resolution.  Stated for node lists in which every node that has a url
\* normalizes, so that only dropped nodes decide it.
C1_DroppedNodesAreWarned ==
    (/\ pc = "done"
     /\ PlaylistRoute
     /\ Received
     /\ Len(UpstreamNodes) > 0
     /\ \A k \in 1..Len(UpstreamNodes) :
            HasUsableUrl(UpstreamNodes[k]) => extract_episode(UpstreamNodes[k]).t = "ok")
    => LET kept == SelectSeq(UpstreamNodes, HasUsableUrl)
           dropped == SelectSeq(UpstreamNodes, LacksUsableUrl)
       IN /\ outcome.kind = "returned"
          /\ outcome.value.entries = [k \in 1..Len(kept) |-> extract_episode(kept[k]).res]
          /\ warnings = [k \in 1..Len(dropped) |-> GetItem(dropped[k], "id")]

\* C2 as stated: every playlist a show, collection or search resolution
\* returns has a non-empty entries sequence.
C2_EntriesNeverEmpty ==
    (PlaylistRoute /\ outcome.kind = "returned") => Len(outcome.value.entries) > 0

\* C2 as amended: every returned playlist was built from a non-empty upstream
\* node list, has one entry or one warning per node, and its entries are
\* empty exactly when the normalizer found no media url on any node.
C2_EntriesEmptyOnlyWhenAllDropped ==
    (PlaylistRoute /\ outcome.kind = "returned")
    => /\ Len(UpstreamNodes) > 0
       /\ Len(outcome.value.entries) + Len(warnings) = Len(UpstreamNodes)
       /\ (outcome.value.entries = <<>>)
            <=> (\A k \in 1..Len(UpstreamNodes) : ~Truthy(EpisodeUrl(UpstreamNodes[k])))

C2_Witness ==
    /\ PlaylistRoute
    /\ outcome.kind = "returned"
    /\ outcome.value.entries = <<>>
    /\ Len(warnings) = 2

\* C3: on the show, collection and search routes, when the node list of the
\* answer is absent, not a list or empty, the resolution fails with the
\* expected error EmptyPlaylist: nothing is returned, no node is normalized
\* and no warning is emitted.
C3_EmptyPlaylistIsFatal ==
    (/\ PlaylistRoute
     /\ Received
     /\ IsRaise(NodeListValue) \/ NodeListValue.t # "list" \/ Len(UpstreamNodes) = 0)
    => /\ outcome.kind # "returned"
       /\ normalized = 0
       /\ warnings = <<>>
       /\ pc \in {"extract", "done"}
       /\ pc = "done" =>
            /\ IsEmptyPlaylistError(outcome)
            /\ outcome.value.msg = IF route = "search" THEN MsgNoSearch ELSE MsgNoPlaylist

C3_Witness ==
    /\ pc = "done"
    /\ route = "programSet"
    /\ Received
    /\ NodeListValue = List(<<>>)
    /\ IsEmptyPlaylistError(outcome)

\* C4: a node whose first audio variant has neither a streaming nor a
\* download url (or that has no audio variant) makes the normalizer fail with
\* MissingMediaURL; no record the normalizer returns, and no entry of a
\* playlist, has a null or empty url.
C4_NoRecordWithoutUrl ==
    /\ (pc = "done" /\ route = "item" /\ ItemPresent /\ LacksUsableUrl(ItemValue))
         => IsMissingMediaURL(outcome)
    /\ (route = "item" /\ outcome.kind = "returned") => UsableUrl(outcome.value.url)
    /\ (PlaylistRoute /\ pc \in {"loop", "done"} /\ res # None)
         => /\ \A k \in 1..Len(res.entries) : UsableUrl(res.entries[k].url)
            /\ Len(res.entries) <=
                 Cardinality({k \in 1..Len(entries) : k < idx /\ HasUsableUrl(entries[k])})

C4_Witness ==
    /\ pc = "done"
    /\ route = "item"
    /\ ItemPresent
    /\ StreamingUrl(ItemValue) = Str(<<>>)
    /\ IsRaise(DownloadUrl(ItemValue))
    /\ IsMissingMediaURL(outcome)

\* C5: the url of a normalized record comes from the first audio variant:
\* it is the streaming url when the variant has one, also when a download url
\* is present, and the download url when there is no streaming url.
C5_StreamingUrlHasPriority ==
    (pc = "done" /\ route = "item" /\ outcome.kind = "returned")
    => /\ UsableUrl(StreamingUrl(ItemValue)) => outcome.value.url = StreamingUrl(ItemValue)
       /\ (~UsableUrl(StreamingUrl(ItemValue)) /\ UsableUrl(DownloadUrl(ItemValue)))
            => outcome.value.url = DownloadUrl(ItemValue)
       /\ outcome.value.url \in {StreamingUrl(ItemValue), DownloadUrl(ItemValue)}

C5_Witness ==
    /\ pc = "done"
    /\ route = "item"
    /\ outcome.kind = "returned"
    /\ StreamingUrl(ItemValue) = UrlS
    /\ DownloadUrl(ItemValue) = UrlD
    /\ outcome.value.url = UrlS

\* C6: the episode route returns a record only when the answer has an item
\* with a usable media url; without an item it fails with the expected error
\* NoEpisodeData, and with an item that lacks a media url MissingMediaURL
\* reaches the caller as an expected error, never as a warning.
C6_EpisodeRouteErrorsAreFatal ==
    (route = "item")
    => /\ warnings = <<>>
       /\ outcome.kind = "returned" => (ItemPresent /\ HasUsableUrl(ItemValue))
       /\ (pc = "done" /\ Received /\ ~ItemPresent) => IsNoEpisodeData(outcome)
       /\ (pc = "done" /\ ItemPresent /\ LacksUsableUrl(ItemValue))
            => (IsMissingMediaURL(outcome) /\ outcome.value.expected)

C6_Witness ==
    /\ pc = "done"
    /\ route = "item"
    /\ Received
    /\ ItemValue = Dict({})
    /\ IsNoEpisodeData(outcome)

\* C7: for an item with a parseable publish timestamp the record the episode
\* route returns carries upload_date and timestamp, as the info_dict of the
\* episode test expects.
C7_RecordCarriesTimestamp ==
    (/\ pc = "done"
     /\ route = "item"
     /\ outcome.kind = "returned"
     /\ Getter(ItemValue, <<Key("publishDate")>>) = Str(<<"2022-05-21T07:40:00.000Z">>))
    => /\ outcome.value.upload_date = Str(<<"20220521">>)
       /\ "timestamp" \in DOMAIN outcome.value

\* C8: every resolution makes exactly one upstream call, before any
\* normalization or warning, whatever the number of nodes; when the call
\* fails the failure is the outcome, with no second call, no warning and no
\* result.
C8_ExactlyOneUpstreamCall ==
    /\ calls <= 1
    /\ (pc \in {"extract", "loop", "done"}) => calls = 1
    /\ (normalized > 0 \/ warnings # <<>> \/ outcome.kind = "returned") => (calls = 1 /\ Received)
    /\ IsDownloadFailure(outcome)
         => (pc = "done" /\ calls = 1 /\ ~Received /\ normalized = 0 /\ warnings = <<>>)
    /\ (pc = "done" /\ ~Received) => IsDownloadFailure(outcome)

C8_Witness ==
    /\ pc = "done"
    /\ calls = 1
    /\ outcome.kind = "returned"
    /\ PlaylistRoute
    /\ Len(outcome.value.entries) = 1
    /\ Len(warnings) = 1

\* C9: a missing media url is the only reason for the normalizer to fail: a
\* node whose first audio variant has a usable url yields a record whatever
\* its other fields hold, an image template that is not well formed
\* included.  Stated for items that have a usable streaming url.
C9_OnlyMissingUrlFails ==
    (pc = "done" /\ route = "item" /\ ItemPresent /\ UsableUrl(StreamingUrl(ItemValue)))
    => outcome.kind = "returned"

\* The loop of each playlist resolver run to its end on a node list.
RECURSIVE SammlungSendungFold(_, _, _)
SammlungSendungFold(playlist, warned, nodes) ==
    IF nodes = <<>> THEN [res |-> playlist, warnings |-> warned, exc |-> None]
    ELSE LET st == SammlungSendungStep(playlist, warned, Head(nodes))
         IN IF IsRaise(st.exc) THEN st
            ELSE SammlungSendungFold(st.res, st.warnings, Tail(nodes))

RECURSIVE SucheFold(_, _, _)
SucheFold(playlist, warned, nodes) ==
    IF nodes = <<>> THEN [res |-> playlist, warnings |-> warned, exc |-> None]
    ELSE LET st == SucheStep(playlist, warned, Head(nodes))
         IN IF IsRaise(st.exc) THEN st
            ELSE SucheFold(st.res, st.warnings, Tail(nodes))

\* What a resolver ends with, given its head and the end of its loop.
Ending(head, fold) ==
    IF IsRaise(head) THEN [outcome |-> Raised(head), warnings |-> <<>>]
    ELSE [outcome |-> IF IsRaise(fold.exc) THEN Raised(fold.exc) ELSE Returned(fold.res),
          warnings |-> fold.warnings]

\* The answer with data.<from> moved to data.<to>.
Transposed(data, from, to) ==
    LET c == Getter(data, <<Key("data"), Key(from)>>)
    IN IF IsRaise(c) THEN Dict({}) ELSE Dict({<<"data", Dict({<<to, c>>})>>})

OutcomeKind(o) ==
    IF o.kind = "returned" THEN "success"
    ELSE IF IsEmptyPlaylistError(o) THEN "EmptyPlaylist"
    ELSE o.value.e

SameAssembly(other) ==
    /\ OutcomeKind(outcome) = OutcomeKind(other.outcome)
    /\ warnings = other.warnings
    /\ outcome.kind = "returned" => outcome.value.entries = other.outcome.value.entries

\* C10: the search route assembles its playlist as the shared assembler of
\* the show and collection routes does: on the same node list both reach the
\* same kind of outcome, the same entries and the same warnings; the search
\* playlist has no id and the search term as its title.
C10_SearchAssemblesAsShared ==
    (pc = "done" /\ Received /\ PlaylistRoute)
    => IF route = "search"
       THEN LET data == Transposed(result_data, "search", "programSet")
                head == SammlungSendungHead(data, "programSet")
                fold == IF IsRaise(head) THEN head
                        ELSE SammlungSendungFold(head.res, <<>>, head.nodes)
            IN /\ SameAssembly(Ending(head, fold))
               /\ outcome.kind = "returned" =>
                    (outcome.value.id = None /\ outcome.value.title = match_id)
       ELSE LET data == Transposed(result_data, route, "search")
                head == SucheHead(data, match_id)
                fold == IF IsRaise(head) THEN head
                        ELSE SucheFold(head.res, <<>>, head.nodes)
            IN /\ SameAssembly(Ending(head, fold))
               /\ outcome.kind = "returned" =>
                    /\ outcome.value.id = try_get(result_data, <<DataPath(route, <<Key("id")>>)>>, "str")
                    /\ outcome.value.title = try_get(result_data, <<DataPath(route, <<Key("title")>>)>>, "str")

C10_Witness ==
    /\ pc = "done"
    /\ route = "search"
    /\ outcome.kind = "returned"
    /\ Len(outcome.value.entries) = 1
    /\ Len(warnings) = 1
    /\ outcome.value.title = Str(<<"termite">>)

====
